---- MODULE Spec2Model ----
(***************************************************************************)
(* The Streamlit spam-filter application of src/app.py as a state machine. *)
(*                                                                         *)
(* One server process holds the st.cache_resource cache of                 *)
(* load_or_build_model and the file model.pkl on its disk.  Every browser  *)
(* session has its own widget state and st.session_state, and every user   *)
(* interaction re-runs the whole script for that session: line 61 resolves *)
(* the model, then the sidebar and the three tabs are rendered and the     *)
(* handler of the pressed button, if any, is executed.                     *)
(*                                                                         *)
(* Probabilities and thresholds are fixed-point numbers: the integer p     *)
(* stands for the value p / ProbaScale.                                    *)
(***************************************************************************)
EXTENDS Integers, Sequences, FiniteSets, TLC

\* ------------------------------------------------------------------ bounds
NumSessions == 2      \* browser sessions served by the process
MaxHist == 2          \* scored requests per session

\* ------------------------------------------------------- program constants
SubjectMax == 60      \* subject[:60]
ExcerptMax == 80      \* body[:80]
RoundDigits == 3      \* round(proba, 3)

ProbaScale == 3 * 1000                 \* 1.0; a thousandth is 3 units, so no
                                       \* value lies halfway between two
Milli == ProbaScale \div (10 ^ RoundDigits)   \* 10^-3
ThresholdMin == ProbaScale \div 10                 \* 0.1
ThresholdMax == 9 * (ProbaScale \div 10)           \* 0.9
ThresholdDefault == ProbaScale \div 2              \* 0.50
ThresholdStep == ProbaScale \div 20                \* 0.05

\* Every position of the slider.
SliderValues ==
    {ThresholdMin + k * ThresholdStep :
        k \in 0..((ThresholdMax - ThresholdMin) \div ThresholdStep)}

TrainedLabel == "model.pkl (da huan luyen)"
TempLabel == "model MLP tam trong app"

SeedTexts ==
    << "Nhan qua tang khung, bam link de nhan thuong ngay",
       "Chuc mung trung iPhone 15, xac nhan tai day",
       "Vay tien nhanh lai suat 0%, click ngay",
       "Mien phi 100% phi dich vu, cap nhat theo link",
       "Moi ban tham du phong van vao thu Hai tuan toi",
       "Dinh kem bao cao doanh so thang 10",
       "Lich hop du an luc 9h sang mai",
       "Chuc mung ban da trung tuyen, vui long xac nhan thoi gian" >>
SeedLabels == << 1, 1, 1, 1, 0, 0, 0, 0 >>

HamSubject == "Moi ban tham du phong van"
HamBody == "Chung toi moi ban tham du phong van luc 9h sang thu Hai tuan toi."
SpamSubject == "Trung thuong iPhone 15"
SpamBody == "Chuc mung! Nhan vao link de xac nhan va nhan qua ngay hom nay."
NotSet == "<not in session_state>"

\* ------------------------------------------------------------- environment
Sessions == 1..NumSessions

\* model.pkl: absent, unreadable, or one of two different pickled pipelines.
Artifacts == {"artifactA", "artifactB"}
DiskStates == {"missing", "corrupt"} \cup Artifacts

\* Text is a sequence of characters.
SP == " "
NL == "\n"
Whitespace == {SP, NL}

\* What the user types into (subject, body).
FormInputs == { << <<SP>>, <<NL>> >>,
                << <<SP, "a">>, <<"b", NL, "c", SP>> >> }

\* Slider positions the user moves to.
SliderPicks == {ThresholdMin, ThresholdDefault, ThresholdMax}

\* Values predict_proba returns, on both sides of a slider position.
Probas == {ThresholdDefault - 1, ThresholdDefault}

\* Readings of the wall clock, already formatted %H:%M:%S.
Times == {"09:59:59", "10:00:00"}

VARIABLES
    disk,        \* state of the file model.pkl
    cache,       \* st.cache_resource entry of load_or_build_model
    lock,        \* holder of the cache's compute lock, 0 when free
    bodyRuns,    \* executions of the body of load_or_build_model
    fitRuns,     \* Pipeline(...).fit calls
    warnings,    \* st.warning calls
    crashed,     \* an exception left load_or_build_model
    seen,        \* what the latest body execution found on disk
    first,       \* the pair the first completed resolution returned
    scoreCalls,  \* predict_proba calls
    scores,      \* what predict_proba has returned: (pipeline, text, value)
    pc,          \* per session: position of its script run
    model,       \* per session: (model, model_source) of line 61
    threshold,   \* per session: slider value
    subject,     \* per session: text_input value
    body,        \* per session: text_area value
    btn,         \* per session: button pressed in the latest run
    out,         \* per session: what tab 1 rendered in the latest run
    call,        \* per session: the predict_proba call of the latest run
    ss,          \* per session: st.session_state["subject"], ["body"]
    hist,        \* per session: st.session_state.hist
    reqs         \* per session: (proba, threshold) of each entry of hist

procVars == << disk, cache, lock, bodyRuns, fitRuns, warnings, crashed, seen, first >>
uiVars == << scoreCalls, scores, threshold, subject, body, btn, out, call, ss, hist, reqs >>
vars == << procVars, uiVars, pc, model >>

\* ----------------------------------------------------------- pure helpers
Min(a, b) == IF a <= b THEN a ELSE b

\* s[:n]
Take(s, n) == SubSeq(s, 1, Min(n, Len(s)))

RECURSIVE LStrip(_)
LStrip(s) ==
    IF s # << >> /\ Head(s) \in Whitespace THEN LStrip(Tail(s)) ELSE s

RECURSIVE RStrip(_)
RStrip(s) ==
    IF s # << >> /\ s[Len(s)] \in Whitespace
    THEN RStrip(SubSeq(s, 1, Len(s) - 1))
    ELSE s

\* str.strip()
Strip(s) == RStrip(LStrip(s))

\* (subject + " " + body).strip()
JoinedNoStrip(sub, bod) == sub \o << SP >> \o bod
JoinedText(sub, bod) == Strip(sub \o << SP >> \o bod)

\* s.replace("\n", " ")
ReplaceNL(s) == [i \in 1..Len(s) |-> IF s[i] = NL THEN SP ELSE s[i]]

\* round(proba, 3), to the nearest thousandth
Round3(p) == ((p + Milli \div 2) \div Milli) * Milli

\* is_spam = proba >= threshold
IsSpamStrict(p, t) == p > t
IsSpam(p, t) == p >= t

\* "SPAM" if is_spam else "Not spam"
VerdictTextSwapped(is_spam) == IF is_spam THEN "Not spam" ELSE "SPAM"
VerdictText(is_spam) == IF is_spam THEN "SPAM" ELSE "Not spam"

\* new_row
NewRow(tm, is_spam, p, sub, bod) ==
    [ time |-> tm,
      is_spam |-> VerdictText(is_spam),
      proba |-> Round3(p),
      subject |-> Take(sub, SubjectMax),
      excerpt |-> ReplaceNL(Take(bod, ExcerptMax)) ]

\* st.session_state.hist.insert(0, new_row)
InsertAppend(h, row) == Append(h, row)
InsertFront(h, row) == << row >> \o h

\* ----------------------------------------------------- load_or_build_model
NoPipeline == [kind |-> "none", inst |-> 0, artifact |-> "-", corpus |-> << >>]
NoCache == [pipeline |-> NoPipeline, source |-> "-"]

SeedCorpus == [i \in 1..Len(SeedTexts) |-> << SeedTexts[i], SeedLabels[i] >>]

\* p.exists()
PathExists(d) == d # "missing"

\* joblib.load(p): the pickled object, or an exception
JoblibLoad(d, n) ==
    IF d \in Artifacts
    THEN [raised |-> FALSE,
          obj |-> [kind |-> "artifact", inst |-> n, artifact |-> d, corpus |-> << >>]]
    ELSE [raised |-> TRUE, obj |-> NoPipeline]

\* Pipeline([...]).fit(texts, labels)
FitFallback(n) ==
    [kind |-> "fallback", inst |-> n, artifact |-> "-", corpus |-> SeedCorpus]

\* return model, "model.pkl (da huan luyen)"
ReturnLoadedAsTemp(obj) == [pipeline |-> obj, source |-> TempLabel]
ReturnLoaded(obj) == [pipeline |-> obj, source |-> TrainedLabel]

\* return model, "model MLP tam trong app"
ReturnFallback(n) == [pipeline |-> FitFallback(n), source |-> TempLabel]

\* except Exception as e: st.warning(...), then on to the fallback
ExceptPropagates == FALSE
ExceptCatches == TRUE

\* @st.cache_resource: a stored value is returned without running the body
CacheHitNever(c) == FALSE
CacheHit(c) == c # NoCache

\* ------------------------------------------------------------ initial state
NoCall == [made |-> FALSE, text |-> << >>]
NoOutput == [kind |-> "none", label |-> "-", proba |-> 0, threshold |-> 0,
             table |-> << >>]
NothingSeen == [existed |-> FALSE, tried |-> FALSE, ok |-> FALSE, file |-> "missing"]

InitWith(live) ==
    /\ disk \in DiskStates
    /\ cache = NoCache
    /\ lock = 0
    /\ bodyRuns = 0
    /\ fitRuns = 0
    /\ warnings = 0
    /\ crashed = FALSE
    /\ seen = NothingSeen
    /\ first = NoCache
    /\ scoreCalls = 0
    /\ scores = {}
    /\ pc = [s \in Sessions |-> IF s \in live THEN "new" ELSE "off"]
    /\ model = [s \in Sessions |-> NoCache]
    /\ threshold = [s \in Sessions |-> ThresholdDefault]
    /\ subject = [s \in Sessions |-> << >>]
    /\ body = [s \in Sessions |-> << >>]
    /\ btn = [s \in Sessions |-> "none"]
    /\ out = [s \in Sessions |-> NoOutput]
    /\ call = [s \in Sessions |-> NoCall]
    /\ ss = [s \in Sessions |-> [subject |-> NotSet, body |-> NotSet]]
    /\ hist = [s \in Sessions |-> << >>]
    /\ reqs = [s \in Sessions |-> << >>]

\* One browser session, through its whole life.
Init == InitWith({1})

\* Every session opens the page of a freshly started process.
InitLoad == InitWith(Sessions)

\* ------------------------------------------------------------ the script run
\* label = "SPAM" if is_spam else "Khong phai SPAM"; badge likewise
CardLabel(is_spam) == IF is_spam THEN "SPAM card" ELSE "Khong phai SPAM card"

\* model.predict_proba([text])[0, 1]: the fitted weights give every text one
\* value, which the source does not tell; a text scored before gets the
\* value it got then.
PredictProba(m, text) ==
    LET known == {r \in scores : r.pipeline = m.pipeline /\ r.text = text}
    IN  IF known = {} THEN Probas ELSE {r.proba : r \in known}

\* Lines 63-146 for session s, with (model, model_source) = m, the pressed
\* button b and the widget values sub, bod, t.
ScriptBody(s, m, b, sub, bod, t) ==
    /\ model' = [model EXCEPT ![s] = m]
    /\ threshold' = [threshold EXCEPT ![s] = t]
    /\ subject' = [subject EXCEPT ![s] = sub]
    /\ body' = [body EXCEPT ![s] = bod]
    /\ btn' = [btn EXCEPT ![s] = b]
    /\ ss' = [ss EXCEPT ![s] =
                IF b = "ham" THEN [subject |-> HamSubject, body |-> HamBody]
                ELSE IF b = "spam" THEN [subject |-> SpamSubject, body |-> SpamBody]
                ELSE @]
    /\ LET text == JoinedText(sub, bod) IN
       IF b = "check" /\ text # << >>
       THEN \E p \in PredictProba(m, text), tm \in Times :
              LET is_spam == IsSpam(p, t)
                  h == InsertFront(hist[s], NewRow(tm, is_spam, p, sub, bod))
              IN  /\ call' = [call EXCEPT ![s] = [made |-> TRUE, text |-> text]]
                  /\ scoreCalls' = scoreCalls + 1
                  /\ scores' = scores \cup
                        {[pipeline |-> m.pipeline, text |-> text, proba |-> p]}
                  /\ hist' = [hist EXCEPT ![s] = h]
                  /\ reqs' = [reqs EXCEPT ![s] =
                                << [proba |-> p, threshold |-> t] >> \o @]
                  /\ out' = [out EXCEPT ![s] =
                               [kind |-> "card", label |-> CardLabel(is_spam),
                                proba |-> Round3(p), threshold |-> t, table |-> h]]
       ELSE /\ call' = [call EXCEPT ![s] = NoCall]
            /\ out' = [out EXCEPT ![s] =
                         [NoOutput EXCEPT !.kind = IF b = "check" THEN "info" ELSE "none",
                                          !.table = hist[s]]]
            /\ UNCHANGED << scoreCalls, scores, hist, reqs >>

\* The rest of the script once line 61 has returned m.
Finish(s, m) ==
    /\ ScriptBody(s, m, btn[s], subject[s], body[s], threshold[s])
    /\ pc' = [pc EXCEPT ![s] = "idle"]

\* A script run starts with the widget state of the request.  A cache hit
\* returns at once and the run touches nothing another session can see, so
\* the run is one step; on a miss the run waits for the compute lock.
Start(s, from, b, sub, bod, t) ==
    /\ pc[s] = from
    /\ IF CacheHit(cache)
       THEN /\ ScriptBody(s, cache, b, sub, bod, t)
            /\ pc' = [pc EXCEPT ![s] = "idle"]
            /\ UNCHANGED procVars
       ELSE /\ pc' = [pc EXCEPT ![s] = "wait"]
            /\ threshold' = [threshold EXCEPT ![s] = t]
            /\ subject' = [subject EXCEPT ![s] = sub]
            /\ body' = [body EXCEPT ![s] = bod]
            /\ btn' = [btn EXCEPT ![s] = b]
            /\ UNCHANGED << procVars, model, scoreCalls, scores, out, call, ss,
                            hist, reqs >>

\* The cache's compute lock is taken and the cache read again; only a second
\* miss runs the body.
AcquireLock(s) ==
    /\ pc[s] = "wait"
    /\ lock = 0
    /\ IF CacheHit(cache)
       THEN /\ Finish(s, cache)
            /\ UNCHANGED procVars
       ELSE /\ lock' = s
            /\ bodyRuns' = bodyRuns + 1
            /\ seen' = NothingSeen
            /\ pc' = [pc EXCEPT ![s] = "body"]
            /\ UNCHANGED << disk, cache, fitRuns, warnings, crashed, first,
                            model, uiVars >>

\* The body returns v: the value is stored, the lock released, and the script
\* goes on.
Complete(s, v) ==
    /\ cache' = v
    /\ lock' = 0
    /\ first' = IF first = NoCache THEN v ELSE first
    /\ Finish(s, v)
    /\ UNCHANGED << disk, bodyRuns, crashed >>

\* if p.exists(): ... else the fallback
BodyExists(s) ==
    /\ pc[s] = "body"
    /\ IF PathExists(disk)
       THEN /\ seen' = [seen EXCEPT !.existed = TRUE]
            /\ pc' = [pc EXCEPT ![s] = "load"]
            /\ UNCHANGED << disk, cache, lock, bodyRuns, fitRuns, warnings,
                            crashed, first, model, uiVars >>
       ELSE /\ fitRuns' = fitRuns + 1
            /\ Complete(s, ReturnFallback(bodyRuns))
            /\ UNCHANGED << seen, warnings >>

\* try: joblib.load(p) ... except Exception: st.warning(...), the fallback
BodyLoad(s) ==
    /\ pc[s] = "load"
    /\ LET r == JoblibLoad(disk, bodyRuns) IN
       /\ seen' = [seen EXCEPT !.tried = TRUE, !.ok = ~r.raised, !.file = disk]
       /\ IF ~r.raised
          THEN /\ Complete(s, ReturnLoaded(r.obj))
               /\ UNCHANGED << fitRuns, warnings >>
          ELSE IF ExceptCatches
          THEN /\ warnings' = warnings + 1
               /\ fitRuns' = fitRuns + 1
               /\ Complete(s, ReturnFallback(bodyRuns))
          ELSE /\ crashed' = TRUE
               /\ lock' = 0
               /\ pc' = [pc EXCEPT ![s] = "idle"]
               /\ UNCHANGED << disk, cache, bodyRuns, fitRuns, warnings, first,
                               model, uiVars >>

\* ------------------------------------------------------------- user actions
\* The page is opened: the first run, every widget at its default.
Connect(s) == Start(s, "new", "none", << >>, << >>, ThresholdDefault)

\* A re-run nothing has changed for.
Rerun(s) == Start(s, "idle", "none", subject[s], body[s], threshold[s])

\* Subject and body are typed.
EditForm(s) ==
    \E f \in FormInputs : Start(s, "idle", "none", f[1], f[2], threshold[s])

\* The slider is moved.
SetThreshold(s) ==
    \E t \in SliderPicks \ {threshold[s]} :
        Start(s, "idle", "none", subject[s], body[s], t)

\* "Kiem tra Spam" is pressed.
PressCheck(s) ==
    /\ Len(hist[s]) < MaxHist
    /\ Start(s, "idle", "check", subject[s], body[s], threshold[s])

\* The HAM example button is pressed.
PressHam(s) == Start(s, "idle", "ham", subject[s], body[s], threshold[s])

\* The SPAM example button is pressed.
PressSpam(s) == Start(s, "idle", "spam", subject[s], body[s], threshold[s])

\* model.pkl is written, replaced, damaged or removed.
DiskChange ==
    /\ \E d \in DiskStates \ {disk} : disk' = d
    /\ UNCHANGED << cache, lock, bodyRuns, fitRuns, warnings, crashed, seen,
                    first, uiVars, pc, model >>

Resolve(s) == AcquireLock(s) \/ BodyExists(s) \/ BodyLoad(s)

Next ==
    \/ \E s \in Sessions : Connect(s)
    \/ \E s \in Sessions : Resolve(s)
    \/ \E s \in Sessions : Rerun(s)
    \/ \E s \in Sessions : EditForm(s)
    \/ \E s \in Sessions : SetThreshold(s)
    \/ \E s \in Sessions : PressCheck(s)
    \/ \E s \in Sessions : PressHam(s)
    \/ \E s \in Sessions : PressSpam(s)
    \/ DiskChange

Spec == Init /\ [][Next]_vars

\* Concurrent first requests: page loads and re-runs of every session.
NextLoad ==
    \/ \E s \in Sessions : Connect(s)
    \/ \E s \in Sessions : Resolve(s)
    \/ \E s \in Sessions : Rerun(s)
    \/ DiskChange

SpecLoad == InitLoad /\ [][NextLoad]_vars

\* -------------------------------------------------------------- properties
Resolved == cache # NoCache

\* C1: the body of load_or_build_model runs at most once in the process,
\* concurrent first requests included, and every call returns the pair the
\* first resolution produced.
C1_ResolvedAtMostOnce ==
    /\ bodyRuns <= 1
    /\ fitRuns <= 1
    /\ \A s \in Sessions : model[s] # NoCache => model[s] = first
    /\ Resolved => cache = first

\* A session has its model while another, which missed the cache while the
\* body was running, still waits for the compute lock.
C1_Witness ==
    \E s, t \in Sessions :
        /\ pc[s] = "idle" /\ model[s] = first /\ first # NoCache
        /\ pc[t] = "wait"
        /\ bodyRuns = 1

\* C2: when model.pkl is absent or cannot be deserialized, no exception leaves
\* load_or_build_model and it returns a pipeline fitted on the 8 seed examples
\* with the temporary label, which is not the trained label; a failed
\* deserialization is announced by a warning.
C2_FallbackOnMissingOrBroken ==
    /\ ~crashed
    /\ (Resolved /\ ~(seen.existed /\ seen.tried /\ seen.ok)) =>
          /\ cache.pipeline.kind = "fallback"
          /\ cache.pipeline.corpus = SeedCorpus
          /\ Len(cache.pipeline.corpus) = 8
          /\ cache.source = TempLabel
          /\ cache.source # TrainedLabel
          /\ fitRuns = 1
          /\ seen.tried => warnings = 1

\* model.pkl was there and did not deserialize: the warning and the fallback.
C2_Witness ==
    /\ Resolved /\ seen.existed /\ seen.tried /\ ~seen.ok
    /\ warnings = 1 /\ cache.source = TempLabel
    /\ \E s \in Sessions : pc[s] = "idle" /\ model[s] = cache

\* C3: when model.pkl exists and deserializes, the deserialized object is
\* returned with the trained label and nothing is fitted; the label is the
\* trained one exactly when the file existed and loaded.
C3_LoadedArtifactReturned ==
    Resolved =>
        /\ (cache.source = TrainedLabel) <=> (seen.existed /\ seen.tried /\ seen.ok)
        /\ (seen.tried /\ seen.ok) =>
              /\ cache.pipeline.kind = "artifact"
              /\ cache.pipeline.artifact = seen.file
              /\ seen.file \in Artifacts
              /\ fitRuns = 0
              /\ warnings = 0

\* The pipeline of the file read at start is in use after the file was replaced.
C3_Witness ==
    /\ Resolved /\ cache.source = TrainedLabel
    /\ cache.pipeline.artifact = "artifactA" /\ disk = "artifactB"
    /\ \E s \in Sessions : pc[s] = "idle" /\ model[s] = cache

\* C4: the verdict shown for a scored request is spam exactly when the
\* probability is at least the selected threshold, a slider value between 0.1
\* and 0.9; a probability equal to the threshold is spam.
C4_VerdictIffAtLeastThreshold ==
    \A s \in Sessions :
        out[s].kind = "card" =>
            /\ threshold[s] \in SliderValues
            /\ ThresholdMin <= threshold[s] /\ threshold[s] <= ThresholdMax
            /\ out[s].threshold = threshold[s]
            /\ (out[s].label = CardLabel(TRUE)) <=> (reqs[s][1].proba >= threshold[s])
            /\ (out[s].label = CardLabel(FALSE)) <=> (reqs[s][1].proba < threshold[s])

\* A probability equal to the threshold was judged spam.
C4_Witness ==
    \E s \in Sessions :
        /\ out[s].kind = "card" /\ out[s].label = CardLabel(TRUE)
        /\ reqs[s][1].proba = threshold[s]

\* Subject and body hold nothing but whitespace.
AllBlank(s) ==
    /\ \A i \in 1..Len(subject[s]) : subject[s][i] \in Whitespace
    /\ \A i \in 1..Len(body[s]) : body[s][i] \in Whitespace

\* The text of subject and body without its leading and trailing whitespace.
Trimmed(s) ==
    LET j == subject[s] \o << SP >> \o body[s]
        solid == {i \in 1..Len(j) : j[i] \notin Whitespace}
        lo == CHOOSE i \in solid : \A k \in solid : i <= k
        hi == CHOOSE i \in solid : \A k \in solid : k <= i
    IN  IF solid = {} THEN << >> ELSE SubSeq(j, lo, hi)

\* C5: a press of the check button on blank input scores nothing, shows the
\* informational message, gives no verdict and leaves the history as it was;
\* on any other input predict_proba is called once, on the trimmed text.
C5_BlankInputShortCircuits ==
    /\ [](\A s \in Sessions :
            (pc[s] = "idle" /\ btn[s] = "check") =>
                IF AllBlank(s)
                THEN ~call[s].made /\ out[s].kind = "info"
                ELSE call[s] = [made |-> TRUE, text |-> Trimmed(s)]
                     /\ out[s].kind = "card")
    /\ [][\A s \in Sessions :
            PressCheck(s) =>
                IF AllBlank(s)
                THEN scoreCalls' = scoreCalls /\ hist' = hist /\ reqs' = reqs
                ELSE scoreCalls' = scoreCalls + 1
                     /\ Len(hist'[s]) = Len(hist[s]) + 1]_vars

\* The check button was pressed on whitespace-only input, after a scored request.
C5_Witness ==
    \E s \in Sessions :
        /\ pc[s] = "idle" /\ btn[s] = "check" /\ AllBlank(s)
        /\ Len(subject[s]) > 0 /\ Len(body[s]) > 0
        /\ out[s].kind = "info" /\ scoreCalls = 1 /\ Len(hist[s]) = 1

\* C6: the history only grows, at its front: a step leaves a session's history
\* as it is or puts one entry, that of the request just scored, before the
\* entries it had, which keep their contents and order.
C6_HistoryNewestFirst ==
    [][/\ \A s \in Sessions :
            \/ hist'[s] = hist[s]
            \/ /\ Len(hist'[s]) = Len(hist[s]) + 1
               /\ Tail(hist'[s]) = hist[s]
               /\ scoreCalls' = scoreCalls + 1
               /\ out'[s].kind = "card"
               /\ Head(hist'[s]).proba = out'[s].proba
               /\ Head(hist'[s]).subject = Take(subject'[s], SubjectMax)
       /\ scoreCalls' # scoreCalls =>
            /\ scoreCalls' = scoreCalls + 1
            /\ \E s \in Sessions : Len(hist'[s]) = Len(hist[s]) + 1]_vars

\* Two different entries, and an example button pressed after the second.
C6_Witness ==
    \E s \in Sessions :
        /\ Len(hist[s]) = 2 /\ hist[s][1] # hist[s][2]
        /\ btn[s] = "ham" /\ pc[s] = "idle"

\* C7: once load_or_build_model has returned, no step replaces or changes the
\* cached pair or the pair a session holds: not a scored request, a threshold
\* change, an example button, nor a change of model.pkl on disk.
C7_PipelineNeverReplaced ==
    [][/\ Resolved => cache' = cache
       /\ \A s \in Sessions : model[s] # NoCache => model'[s] = model[s]]_vars

\* The loaded pipeline is still the session's after the file was removed, a
\* request scored, the threshold moved and an example button pressed.
C7_Witness ==
    \E s \in Sessions :
        /\ Resolved /\ cache.source = TrainedLabel /\ disk = "missing"
        /\ model[s] = cache /\ pc[s] = "idle"
        /\ Len(hist[s]) >= 1 /\ threshold[s] # ThresholdDefault
        /\ ss[s].subject # NotSet

Aligned == \A s \in Sessions : Len(reqs[s]) = Len(hist[s])

\* C10, as claimed: an entry says SPAM exactly when the probability it records
\* is at least the threshold of its request.
C10_AsClaimed ==
    \A s \in Sessions : \A i \in 1..Len(hist[s]) :
        (hist[s][i].is_spam = "SPAM") <=> (hist[s][i].proba >= reqs[s][i].threshold)

\* C10, amended: an entry says SPAM exactly when the probability of its
\* request, before rounding, was at least the threshold selected then; the
\* entry records that probability rounded to three decimals, so SPAM entries
\* record at least the threshold; and no later step changes an entry.
C10_VerdictAtRequestTime ==
    /\ [](Aligned /\ \A s \in Sessions : \A i \in 1..Len(hist[s]) :
            /\ (hist[s][i].is_spam = "SPAM") <=>
                   (reqs[s][i].proba >= reqs[s][i].threshold)
            /\ hist[s][i].is_spam \in {"SPAM", "Not spam"}
            /\ hist[s][i].proba = Round3(reqs[s][i].proba)
            /\ hist[s][i].is_spam = "SPAM" => hist[s][i].proba >= reqs[s][i].threshold)
    /\ [][\A s \in Sessions : \A i \in 1..Len(hist[s]) :
            LET j == i + Len(hist'[s]) - Len(hist[s]) IN
            /\ j \in 1..Len(hist'[s])
            /\ hist'[s][j].is_spam = hist[s][i].is_spam
            /\ hist'[s][j].proba = hist[s][i].proba]_vars

\* An entry that says "Not spam" and records the threshold itself, with the
\* slider since moved below it.
C10_Witness ==
    \E s \in Sessions :
        /\ Len(hist[s]) >= 1
        /\ hist[s][1].is_spam = "Not spam"
        /\ hist[s][1].proba = reqs[s][1].threshold
        /\ threshold[s] < reqs[s][1].threshold

====
